---- MODULE Spec2Model ----
(***************************************************************************)
(* AdamW (src/optimizer.py): construction with validation of the           *)
(* hyperparameters, and step(): the optional closure, the loop over        *)
(* parameter groups and parameters, the lazily created per-parameter       *)
(* state, the moment updates, bias correction, the parameter update and    *)
(* decoupled weight decay.                                                 *)
(*                                                                         *)
(* Numbers.  A number is a pair <<n, d>> of integers in lowest terms with  *)
(* d >= 0: the rational n/d when d > 0, and the IEEE specials when d = 0   *)
(* (<<1,0>> is +inf, <<-1,0>> is -inf, <<0,0>> is NaN).  Addition,         *)
(* multiplication and division are exact; a square root is rounded up to   *)
(* the next multiple of 1/SqrtScale (a finite-precision root that, like    *)
(* the floating-point one, is zero only at zero).  Rounding of the other   *)
(* floating-point operations is not modelled.                              *)
(***************************************************************************)
EXTENDS Integers, Sequences, FiniteSets, TLC

\* ------------------------------------------------------------------ bounds
MaxCalls == 2
SqrtScale == 4

\* ------------------------------------------------------------- arithmetic
None == "None"

Abs(i) == IF i < 0 THEN -i ELSE i

Sign(i) == IF i < 0 THEN -1 ELSE IF i = 0 THEN 0 ELSE 1

RECURSIVE GCD(_, _)
GCD(a, b) == IF b = 0 THEN a ELSE GCD(b, a % b)

Norm(n, d) ==
    IF d = 0 THEN <<Sign(n), 0>>
    ELSE LET s == IF d < 0 THEN -1 ELSE 1
             g == GCD(Abs(n), Abs(d))
         IN  <<(s * n) \div g, (s * d) \div g>>

R(n, d) == Norm(n, d)
Zero == <<0, 1>>
One == <<1, 1>>
NaN == <<0, 0>>
PosInf == <<1, 0>>
NegInf == <<-1, 0>>

IsFinite(x) == x[2] # 0

Add(x, y) ==
    IF x[2] = 0 /\ y[2] = 0
    THEN (IF x = y THEN x ELSE NaN)
    ELSE LET g == GCD(x[2], y[2])
         IN  Norm(x[1] * (y[2] \div g) + y[1] * (x[2] \div g), (x[2] \div g) * y[2])

Mul(x, y) == Norm(x[1] * y[1], x[2] * y[2])

Neg(x) == <<-x[1], x[2]>>

Sub(x, y) == Add(x, Neg(y))

\* x / y for a finite y >= 0 (a denominator, a bias correction)
Div(x, y) == Norm(x[1] * y[2], x[2] * y[1])

\* x < y and x <= y, both finite
Less(x, y) == x[1] * y[2] < y[1] * x[2]
Leq(x, y) == x[1] * y[2] <= y[1] * x[2]

RECURSIVE Pow(_, _)
Pow(x, k) == IF k = 0 THEN One ELSE Mul(x, Pow(x, k - 1))

\* the square root of a finite x >= 0, rounded up to a multiple of 1/SqrtScale
Sqrt(x) ==
    LET top == SqrtScale * ((x[1] \div x[2]) + 1)
        scaled == x[1] * SqrtScale * SqrtScale
        \* the least integer >= x * SqrtScale^2
        need == (scaled + x[2] - 1) \div x[2]
        k == CHOOSE j \in 0..top :
                 /\ j * j >= need
                 /\ \A i \in 0..(j - 1) : i * i < need
    IN  Norm(k, SqrtScale)

\* ---------------------------------------------------------------- tensors
TAdd(t, u) == [j \in DOMAIN t |-> Add(t[j], u[j])]
TScale(c, t) == [j \in DOMAIN t |-> Mul(c, t[j])]
zeros_like(t) == [j \in DOMAIN t |-> Zero]

Square(x) == Mul(x, x)
TSquare(t) == [j \in DOMAIN t |-> Square(t[j])]

\* ------------------------------------------------------- construction
\* The hyperparameter keys of a group; a group also holds "params".
HyperKeys == {"lr", "betas", "eps", "weight_decay", "correct_bias"}

\* Optimizer.__init__(params, defaults): every group takes, for each key it
\* does not set itself, the default.
make_param_groups(params, defaults) ==
    [gi \in DOMAIN params |->
        [k \in HyperKeys \cup {"params"} |->
            IF k \in DOMAIN params[gi] THEN params[gi][k] ELSE defaults[k]]]

NoGroups == << >>

Rejected(msg, value) ==
    [raised |-> "ValueError", msg |-> msg, value |-> value, param_groups |-> NoGroups]

\* the constructor with the boundary learning rate and epsilon refused
AdamW_init_strict(params, lr, betas, eps, weight_decay, correct_bias) ==
    IF Leq(lr, Zero) THEN Rejected("Invalid learning rate", lr)
    ELSE IF ~(Leq(Zero, betas[1]) /\ Less(betas[1], One))
    THEN Rejected("Invalid beta parameter", betas[1])
    ELSE IF ~(Leq(Zero, betas[2]) /\ Less(betas[2], One))
    THEN Rejected("Invalid beta parameter", betas[2])
    ELSE IF ~Less(Zero, eps) THEN Rejected("Invalid epsilon value", eps)
    ELSE [raised |-> None, msg |-> "", value |-> Zero,
          param_groups |->
              make_param_groups(params,
                  [lr |-> lr, betas |-> betas, eps |-> eps,
                   weight_decay |-> weight_decay, correct_bias |-> correct_bias])]

AdamW_init(params, lr, betas, eps, weight_decay, correct_bias) ==
    IF Less(lr, Zero) THEN Rejected("Invalid learning rate", lr)
    ELSE IF ~(Leq(Zero, betas[1]) /\ Less(betas[1], One))
    THEN Rejected("Invalid beta parameter", betas[1])
    ELSE IF ~(Leq(Zero, betas[2]) /\ Less(betas[2], One))
    THEN Rejected("Invalid beta parameter", betas[2])
    ELSE IF ~Leq(Zero, eps) THEN Rejected("Invalid epsilon value", eps)
    ELSE [raised |-> None, msg |-> "", value |-> Zero,
          param_groups |->
              make_param_groups(params,
                  [lr |-> lr, betas |-> betas, eps |-> eps,
                   weight_decay |-> weight_decay, correct_bias |-> correct_bias])]

\* ------------------------------------------------------------- step()
\* An empty state dictionary, and "if len(state) == 0".
EmptyState == [k \in {} |-> 0]

\* the state re-created on every update
init_state_always(st, pdata) ==
    [step |-> 0, exp_avg |-> zeros_like(pdata), exp_avg_sq |-> zeros_like(pdata)]

init_state(st, pdata) ==
    IF DOMAIN st = {}
    THEN [step |-> 0, exp_avg |-> zeros_like(pdata), exp_avg_sq |-> zeros_like(pdata)]
    ELSE st

\* moments with the two factors exchanged
moments_swapped(st, beta1, beta2, g) ==
    [step |-> st.step + 1,
     exp_avg |-> TAdd(TScale(beta2, st.exp_avg), TScale(Sub(One, beta2), g)),
     exp_avg_sq |-> TAdd(TScale(beta1, st.exp_avg_sq),
                               TScale(Sub(One, beta1), TSquare(g)))]

\* state["step"] += 1 and the two moving averages
moments(st, beta1, beta2, g) ==
    [step |-> st.step + 1,
     exp_avg |-> TAdd(TScale(beta1, st.exp_avg), TScale(Sub(One, beta1), g)),
     exp_avg_sq |-> TAdd(TScale(beta2, st.exp_avg_sq),
                               TScale(Sub(One, beta2), TSquare(g)))]

\* the correction without the power
bias_correction_no_power(beta, step) == Sub(One, beta)

bias_correction(beta, step) == Sub(One, Pow(beta, step))

\* step_size; the division is Python's, which raises on a zero divisor
step_size_of(alpha, beta1, beta2, correct_bias, step) ==
    IF correct_bias
    THEN Div(Mul(alpha, Sqrt(bias_correction(beta2, step))), bias_correction(beta1, step))
    ELSE alpha

\* the denominator without epsilon
denom_without_eps(exp_avg_sq, eps) == [j \in DOMAIN exp_avg_sq |-> Sqrt(exp_avg_sq[j])]

denom_of(exp_avg_sq, eps) == [j \in DOMAIN exp_avg_sq |-> Add(Sqrt(exp_avg_sq[j]), eps)]

\* p.data.addcdiv_(exp_avg, denom, value=-step_size)
addcdiv(pdata, exp_avg, denom, value) ==
    [j \in DOMAIN pdata |-> Add(pdata[j], Div(Mul(value, exp_avg[j]), denom[j]))]

\* decay scaled by the bias-corrected step size
decay_by_step_size(q, alpha, weight_decay, step_size) ==
    IF weight_decay # Zero
    THEN [j \in DOMAIN q |-> Add(q[j], Mul(Neg(Mul(step_size, weight_decay)), q[j]))]
    ELSE q

\* if weight_decay != 0: p.data.add_(p.data, alpha=-alpha * weight_decay).
\* step_size is in scope at this line of the source and is not used by it.
decay(q, alpha, weight_decay, step_size) ==
    IF weight_decay # Zero
    THEN [j \in DOMAIN q |-> Add(q[j], Mul(Neg(Mul(alpha, weight_decay)), q[j]))]
    ELSE q

\* One update of one parameter (lines 43-77): the new state, the parameter
\* after addcdiv_ (q) and after weight decay (data), and the locals.  The
\* record of the locals holds both corrections whether or not correct_bias
\* has the source compute them.
\* bias_correction1 is a Python float divisor; it is positive for the betas
\* construction accepts (BiasCorrectionPositive below).
update(group, st0, pdata, g) ==
    LET alpha == group.lr
        beta1 == group.betas[1]
        beta2 == group.betas[2]
        eps == group.eps
        weight_decay == group.weight_decay
        correct_bias == group.correct_bias
        st == moments(init_state(st0, pdata), beta1, beta2, g)
        step_size == step_size_of(alpha, beta1, beta2, correct_bias, st.step)
        denom == denom_of(st.exp_avg_sq, eps)
        q == addcdiv(pdata, st.exp_avg, denom, Neg(step_size))
        after == decay(q, alpha, weight_decay, step_size)
    IN  [state |-> st,
         data |-> after,
         locals |-> [grad |-> g, before |-> pdata, step |-> st.step,
                     bias_correction1 |-> bias_correction(beta1, st.step),
                     bias_correction2 |-> bias_correction(beta2, st.step),
                     step_size |-> step_size, denom |-> denom, q |-> q,
                     after |-> after]]

\* --------------------------------------------------------------- state
VARIABLES
    pc,             \* "new", "failed" (construction raised), "idle", "loop" (inside step())
    param_groups,   \* self.param_groups
    state,          \* self.state: parameter -> state dictionary
    data,           \* p.data of every parameter
    grad,           \* p.grad of every parameter
    cursor,         \* position of the loop in the iteration order
    closure,        \* the closure argument of the running call
    loss,           \* the local loss
    closure_calls,  \* invocations of the closure in the running (or last) call
    result,         \* how the last call or the construction ended
    calls,          \* step() calls started
    pre,            \* data, state and gradients when the running (or last) call was entered
    hist            \* per parameter, the locals of each of its updates

vars == <<pc, param_groups, state, data, grad, cursor, closure, loss,
          closure_calls, result, calls, pre, hist>>

\* ------------------------------------------------------------- inputs
Params == {1, 2, 3}

InitData == << <<R(1, 1), R(-2, 1)>>, <<R(0, 1), R(3, 1)>>, <<R(-1, 1), R(1, 2)>> >>

\* The params argument: two groups, the second with its own hyperparameters.
Overrides ==
    { [params |-> <<3>>],
      [params |-> <<3>>, betas |-> <<R(1, 4), R(3, 4)>>, weight_decay |-> One,
       correct_bias |-> FALSE] }

ParamsArgs == { << [params |-> <<1, 2>>], o >> : o \in Overrides }

LrValues == {R(-1, 1), Zero, One}
BetaValues == {R(-1, 2), Zero, R(1, 2), One}
EpsValues == {R(-1, 1), Zero, One}
WeightDecayValues == {Zero, R(1, 2)}

\* The constructions the step() behaviours start from.
Defaults ==
    { [lr |-> One, betas |-> <<R(1, 2), R(1, 2)>>, eps |-> One,
       weight_decay |-> Zero, correct_bias |-> TRUE],
      [lr |-> One, betas |-> <<R(9, 10), R(999, 1000)>>, eps |-> One,
       weight_decay |-> Zero, correct_bias |-> TRUE],
      [lr |-> Zero, betas |-> <<Zero, Zero>>, eps |-> Zero,
       weight_decay |-> Zero, correct_bias |-> TRUE],
      [lr |-> One, betas |-> <<R(1, 2), Zero>>, eps |-> Zero,
       weight_decay |-> R(1, 2), correct_bias |-> FALSE],
      [lr |-> R(1, 2), betas |-> <<Zero, R(1, 2)>>, eps |-> Zero,
       weight_decay |-> R(1, 2), correct_bias |-> TRUE] }

NoGrad == [present |-> FALSE, is_sparse |-> FALSE, data |-> << >>]
Dense(g) == [present |-> TRUE, is_sparse |-> FALSE, data |-> g]
Sparse(g) == [present |-> TRUE, is_sparse |-> TRUE, data |-> g]

GradA == <<R(2, 1), Zero>>
GradB == <<R(-1, 1), R(2, 1)>>

\* The gradients a backward pass may leave on the three parameters.
GradAssignments ==
    { <<Dense(GradA), Dense(GradA), Dense(GradA)>>,
      <<Dense(GradB), Dense(GradB), Dense(GradB)>>,
      <<Dense(GradA), Dense(GradB), NoGrad>>,
      <<NoGrad, Dense(GradA), Dense(GradB)>>,
      <<Dense(GradB), NoGrad, Dense(GradA)>>,
      <<NoGrad, NoGrad, NoGrad>>,
      <<Sparse(GradA), Dense(GradA), Dense(GradB)>>,
      <<Dense(GradA), Sparse(GradB), Dense(GradB)>>,
      <<Dense(GradB), Dense(GradA), Sparse(GradA)>>,
      <<NoGrad, Sparse(GradB), Dense(GradA)>> }

NoValue == << >>

\* A closure reads the parameters and returns the loss it computes from them.
Closures == {None, "sum"}

RECURSIVE SumTensor(_)
SumTensor(t) == IF t = << >> THEN Zero ELSE Add(Head(t), SumTensor(Tail(t)))

RECURSIVE SumAll(_)
SumAll(ts) == IF ts = << >> THEN Zero ELSE Add(SumTensor(Head(ts)), SumAll(Tail(ts)))

\* the closure invoked and its value dropped
call_closure_dropped(c, d) == NoValue

call_closure(c, d) == IF c = None THEN NoValue ELSE SumAll(d)

\* ------------------------------------------------------ iteration order
\* for group in self.param_groups: for p in group["params"]
RECURSIVE Items(_, _)
Items(groups, gi) ==
    IF gi > Len(groups) THEN << >>
    ELSE [j \in 1..Len(groups[gi].params) |-> <<gi, groups[gi].params[j]>>]
         \o Items(groups, gi + 1)

IterOrder == Items(param_groups, 1)

\* The loop from the parameter at the head of items on, until it ends or raises.
RECURSIVE run_loop(_, _)

\* the body with weight decay applied outside the test for a gradient
loop_body_decay_first(env, item) ==
    LET group == param_groups[item[1]]
        p == item[2]
        d == decay(env.data[p], group.lr, group.weight_decay, group.lr)
    IN  IF ~grad[p].present THEN [env EXCEPT !.data[p] = d]
        ELSE IF grad[p].is_sparse THEN [env EXCEPT !.raised = "RuntimeError"]
        ELSE LET u == update(group, env.state[p], env.data[p], grad[p].data)
             IN  [data |-> [env.data EXCEPT ![p] = u.data],
                  state |-> [env.state EXCEPT ![p] = u.state],
                  hist |-> [env.hist EXCEPT ![p] = Append(@, u.locals)],
                  raised |-> None]

\* the body with a sparse gradient skipped like a missing one
loop_body_skip_sparse(env, item) ==
    LET group == param_groups[item[1]]
        p == item[2]
    IN  IF ~grad[p].present \/ grad[p].is_sparse THEN env
        ELSE LET u == update(group, env.state[p], env.data[p], grad[p].data)
             IN  [data |-> [env.data EXCEPT ![p] = u.data],
                  state |-> [env.state EXCEPT ![p] = u.state],
                  hist |-> [env.hist EXCEPT ![p] = Append(@, u.locals)],
                  raised |-> None]

\* the body with one state dictionary shared by all parameters
loop_body_shared_state(env, item) ==
    LET group == param_groups[item[1]]
        p == item[2]
    IN  IF ~grad[p].present THEN env
        ELSE IF grad[p].is_sparse THEN [env EXCEPT !.raised = "RuntimeError"]
        ELSE LET u == update(group, env.state[1], env.data[p], grad[p].data)
             IN  [data |-> [env.data EXCEPT ![p] = u.data],
                  state |-> [env.state EXCEPT ![1] = u.state],
                  hist |-> [env.hist EXCEPT ![p] = Append(@, u.locals)],
                  raised |-> None]

\* The body of the loop for one parameter, on env = [data, state, hist, raised].
loop_body(env, item) ==
    LET group == param_groups[item[1]]
        p == item[2]
    IN  IF ~grad[p].present THEN env
        ELSE IF grad[p].is_sparse THEN [env EXCEPT !.raised = "RuntimeError"]
        ELSE LET u == update(group, env.state[p], env.data[p], grad[p].data)
             IN  [data |-> [env.data EXCEPT ![p] = u.data],
                  state |-> [env.state EXCEPT ![p] = u.state],
                  hist |-> [env.hist EXCEPT ![p] = Append(@, u.locals)],
                  raised |-> None]

run_loop(env, items) ==
    IF items = << >> \/ env.raised # None THEN env
    ELSE run_loop(loop_body(env, Head(items)), Tail(items))

\* ------------------------------------------------------------- actions
Construct(params, lr, betas, eps, weight_decay, correct_bias) ==
    LET r == AdamW_init(params, lr, betas, eps, weight_decay, correct_bias)
    IN  /\ pc = "new"
        /\ pc' = IF r.raised = None THEN "idle" ELSE "failed"
        /\ param_groups' = r.param_groups
        /\ result' = [kind |-> IF r.raised = None THEN "constructed" ELSE "raise",
                      error |-> r.raised, msg |-> r.msg, value |-> r.value]
        /\ UNCHANGED <<state, data, grad, cursor, closure, loss, closure_calls,
                       calls, pre, hist>>

\* The training loop attaches gradients between calls.
backward(gs) ==
    /\ pc = "idle"
    /\ calls < MaxCalls
    /\ grad' = gs
    /\ UNCHANGED <<pc, param_groups, state, data, cursor, closure, loss,
                   closure_calls, result, calls, pre, hist>>

\* step(closure), lines 29-32
step_enter(c) ==
    /\ pc = "idle"
    /\ calls < MaxCalls
    /\ pc' = "loop"
    /\ calls' = calls + 1
    /\ closure' = c
    /\ closure_calls' = IF c # None THEN 1 ELSE 0
    /\ loss' = call_closure(c, data)
    /\ pre' = [data |-> data, state |-> state, grad |-> grad]
    /\ cursor' = 1
    /\ result' = [kind |-> "running", error |-> None, msg |-> "", value |-> NoValue]
    /\ UNCHANGED <<param_groups, state, data, grad, hist>>

\* one iteration of the loops, lines 34-77
step_param ==
    /\ pc = "loop"
    /\ cursor <= Len(IterOrder)
    /\ LET env == loop_body([data |-> data, state |-> state, hist |-> hist,
                             raised |-> None], IterOrder[cursor])
       IN  /\ data' = env.data
           /\ state' = env.state
           /\ hist' = env.hist
           /\ IF env.raised # None
              THEN /\ pc' = "idle"
                   /\ result' = [kind |-> "raise", error |-> env.raised,
                                 msg |-> "Adam does not support sparse gradients",
                                 value |-> NoValue]
                   /\ UNCHANGED cursor
              ELSE /\ cursor' = cursor + 1
                   /\ UNCHANGED <<pc, result>>
    /\ UNCHANGED <<param_groups, grad, closure, loss, closure_calls, calls, pre>>

\* return loss, line 79
step_return ==
    /\ pc = "loop"
    /\ cursor > Len(IterOrder)
    /\ pc' = "idle"
    /\ result' = [kind |-> "return", error |-> None, msg |-> "", value |-> loss]
    /\ UNCHANGED <<param_groups, state, data, grad, cursor, closure, loss,
                   closure_calls, calls, pre, hist>>

\* ------------------------------------------------------ specifications
Blank ==
    /\ state = [p \in Params |-> EmptyState]
    /\ data = InitData
    /\ grad = [p \in Params |-> NoGrad]
    /\ cursor = 0
    /\ closure = None
    /\ loss = NoValue
    /\ closure_calls = 0
    /\ calls = 0
    /\ pre = [data |-> InitData, state |-> [p \in Params |-> EmptyState],
              grad |-> [p \in Params |-> NoGrad]]
    /\ hist = [p \in Params |-> << >>]

\* after an accepted construction
Init ==
    /\ Blank
    /\ pc = "idle"
    /\ \E params \in ParamsArgs, d \in Defaults :
          param_groups = AdamW_init(params, d.lr, d.betas, d.eps, d.weight_decay,
                                    d.correct_bias).param_groups
    /\ result = [kind |-> "constructed", error |-> None, msg |-> "", value |-> Zero]

Next ==
    \/ \E gs \in GradAssignments : backward(gs)
    \/ \E c \in Closures : step_enter(c)
    \/ step_param
    \/ step_return

Spec == Init /\ [][Next]_vars

\* before construction
InitNew ==
    /\ Blank
    /\ pc = "new"
    /\ param_groups = NoGroups
    /\ result = [kind |-> "none", error |-> None, msg |-> "", value |-> Zero]

NextConstruct ==
    \E params \in ParamsArgs, lr \in LrValues, b1 \in BetaValues, b2 \in BetaValues,
       eps \in EpsValues, wd \in WeightDecayValues, cb \in BOOLEAN :
        Construct(params, lr, <<b1, b2>>, eps, wd, cb)

SpecConstruct == InitNew /\ [][NextConstruct]_vars

\* ------------------------------------------------------------ helpers
\* the group that contains parameter p
GroupOf(p) ==
    param_groups[CHOOSE gi \in DOMAIN param_groups :
                    \E j \in DOMAIN param_groups[gi].params : param_groups[gi].params[j] = p]

Updated(p) == hist[p] # << >>

\* the moving average with factor beta of the first k tensors xs[1..k], from zero
RECURSIVE MovingAverage(_, _, _, _)
MovingAverage(beta, xs, k, zero) ==
    IF k = 0 THEN zero
    ELSE TAdd(TScale(beta, MovingAverage(beta, xs, k - 1, zero)),
                    TScale(Sub(One, beta), xs[k]))

Grads(p) == [k \in DOMAIN hist[p] |-> hist[p][k].grad]
SquaredGrads(p) == [k \in DOMAIN hist[p] |-> TSquare(hist[p][k].grad)]

LoopDone == pc = "loop" /\ cursor > Len(IterOrder)

\* -------------------------------------------------------- properties

\* C1: every update of a parameter with a dense gradient sets exp_avg to
\* beta1 * exp_avg_old + (1 - beta1) * grad and exp_avg_sq to
\* beta2 * exp_avg_sq_old + (1 - beta2) * grad^2, element-wise, with the betas
\* of the parameter's group and from all-zero accumulators: after k updates
\* the accumulators are the k-fold moving averages of the gradients (of their
\* squares) the parameter was updated with; after exactly one update with
\* betas (0.9, 0.999), step is 1, exp_avg is 0.1 * grad and exp_avg_sq is
\* 0.001 * grad^2.
C1_Moments ==
    \A p \in Params :
        Updated(p) =>
            LET g == GroupOf(p)
                n == Len(hist[p])
                zero == zeros_like(InitData[p])
            IN  /\ state[p].exp_avg = MovingAverage(g.betas[1], Grads(p), n, zero)
                /\ state[p].exp_avg_sq = MovingAverage(g.betas[2], SquaredGrads(p), n, zero)
                /\ (n = 1 /\ g.betas = <<R(9, 10), R(999, 1000)>>) =>
                      /\ state[p].step = 1
                      /\ state[p].exp_avg = TScale(R(1, 10), hist[p][1].grad)
                      /\ state[p].exp_avg_sq =
                            TScale(R(1, 1000), TSquare(hist[p][1].grad))

C1_Witness ==
    \E p \in Params :
        /\ Len(hist[p]) = 1
        /\ GroupOf(p).betas = <<R(9, 10), R(999, 1000)>>
        /\ state[p].exp_avg = <<R(-1, 10), R(1, 5)>>
        /\ state[p].exp_avg_sq = <<R(1, 1000), R(1, 250)>>

\* C2: with weight_decay != 0 the decay comes after the moment-based update of
\* the same parameter and is scaled by the group's learning rate: the value an
\* update leaves is q - lr * weight_decay * q, where q is the value the
\* moment-based update produced from the moving averages of the undecayed
\* gradients; with weight_decay = 0 the value left is q.
C2_DecayAfterUpdate ==
    \A p \in Params :
        \A k \in DOMAIN hist[p] :
            LET g == GroupOf(p)
                u == hist[p][k]
                zero == zeros_like(InitData[p])
                m == MovingAverage(g.betas[1], Grads(p), k, zero)
                v == MovingAverage(g.betas[2], SquaredGrads(p), k, zero)
                q == [j \in DOMAIN u.before |->
                        Sub(u.before[j],
                            Div(Mul(u.step_size, m[j]), Add(Sqrt(v[j]), g.eps)))]
                c == Mul(g.lr, g.weight_decay)
            IN  /\ u.q = q
                /\ u.after = IF g.weight_decay # Zero
                             THEN [j \in DOMAIN q |-> Sub(q[j], Mul(c, q[j]))]
                             ELSE q
                /\ k = Len(hist[p]) => data[p] = u.after

C2_Witness ==
    \E p \in Params :
        /\ Len(hist[p]) = 1
        /\ GroupOf(p).weight_decay # Zero
        /\ GroupOf(p).lr # hist[p][1].step_size
        /\ \A j \in DOMAIN data[p] :
              /\ IsFinite(data[p][j])
              /\ data[p][j] # hist[p][1].q[j]
              /\ hist[p][1].q[j] # hist[p][1].before[j]

\* C3: a parameter's state is absent while it has never been updated, and
\* otherwise its step equals the number of updates applied to it; the k-th
\* update leaves step = k; step never decreases and a state once created is
\* never emptied.
C3_StepCountsUpdates ==
    \A p \in Params :
        /\ ~Updated(p) => state[p] = EmptyState
        /\ Updated(p) => state[p].step = Len(hist[p])
        /\ \A k \in DOMAIN hist[p] : hist[p][k].step = k

C3_StepMonotonic ==
    [][\A p \in Params :
          /\ state[p] # EmptyState => state'[p] # EmptyState
          /\ (state[p] # EmptyState => state'[p].step >= state[p].step)
          /\ (state[p] # state'[p] =>
                state'[p].step = (IF state[p] = EmptyState THEN 0 ELSE state[p].step) + 1)]_vars

C3_StepCount == []C3_StepCountsUpdates /\ C3_StepMonotonic

C3_Witness ==
    \E p, r \in Params :
        /\ state[p] # EmptyState /\ state[p].step = 2
        /\ state[r] = EmptyState
        /\ calls = 2 /\ pc = "idle"

\* C4: step() leaves a parameter that has no gradient alone: its value, its
\* state (none, if it had none) and the record of its updates do not change,
\* whatever the other parameters' gradients and its group's hyperparameters.
C4_NoGradUntouched ==
    [][\A p \in Params :
          ~grad[p].present =>
              /\ data'[p] = data[p]
              /\ state'[p] = state[p]
              /\ hist'[p] = hist[p]]_vars

C4_Witness ==
    \E p, r \in Params :
        /\ LoopDone
        /\ calls = 2
        /\ ~grad[p].present /\ ~Updated(p) /\ state[p] = EmptyState
        /\ data[p] = InitData[p]
        /\ GroupOf(p).weight_decay # Zero /\ GroupOf(p).lr # Zero
        /\ Len(hist[r]) = 2

\* C5: a call that reaches a sparse gradient raises and processes nothing
\* further: the dense-gradient parameters before the offending one keep their
\* full update, the offending parameter and every later one keep the value and
\* state they had before the call; and a call returns only when it met no
\* sparse gradient.
C5_SparseRaises ==
    /\ (pc = "idle" /\ result.kind = "raise") =>
          LET bad == IterOrder[cursor][2]
          IN  /\ result.error = "RuntimeError"
              /\ pre.grad[bad].present /\ pre.grad[bad].is_sparse
              /\ \A i \in DOMAIN IterOrder :
                    LET p == IterOrder[i][2]
                    IN  IF i < cursor /\ pre.grad[p].present
                        THEN LET u == update(param_groups[IterOrder[i][1]],
                                             pre.state[p], pre.data[p], pre.grad[p].data)
                             IN  /\ ~pre.grad[p].is_sparse
                                 /\ data[p] = u.data
                                 /\ state[p] = u.state
                        ELSE data[p] = pre.data[p] /\ state[p] = pre.state[p]
    /\ (LoopDone \/ (pc = "idle" /\ result.kind = "return")) =>
          \A p \in Params : ~(pre.grad[p].present /\ pre.grad[p].is_sparse)

C5_Witness ==
    /\ pc = "idle" /\ result.kind = "raise"
    /\ cursor = 2
    /\ state[IterOrder[1][2]] # pre.state[IterOrder[1][2]]
    /\ data[IterOrder[1][2]] # pre.data[IterOrder[1][2]]
    /\ pre.grad[IterOrder[3][2]].present /\ ~pre.grad[IterOrder[3][2]].is_sparse
    /\ data[IterOrder[3][2]] = pre.data[IterOrder[3][2]]

\* C6: construction fails (InvalidConfiguration, a ValueError) exactly when
\* learning_rate < 0, or beta1 or beta2 is outside [0, 1), or epsilon < 0; a
\* failed construction leaves no groups and no per-parameter state; the
\* boundary values 0 of all four are accepted.
C6_Invalid(lr, b1, b2, eps) ==
    \/ lr[1] < 0
    \/ b1[1] < 0 \/ b1[1] >= b1[2]
    \/ b2[1] < 0 \/ b2[1] >= b2[2]
    \/ eps[1] < 0

C6_Validation ==
    [][\A params \in ParamsArgs, lr \in LrValues, b1 \in BetaValues, b2 \in BetaValues,
          eps \in EpsValues, wd \in WeightDecayValues, cb \in BOOLEAN :
          Construct(params, lr, <<b1, b2>>, eps, wd, cb) =>
              /\ pc' = "failed" <=> C6_Invalid(lr, b1, b2, eps)
              /\ pc' = "idle" <=> ~C6_Invalid(lr, b1, b2, eps)
              /\ pc' = "failed" =>
                    /\ result'.kind = "raise" /\ result'.error = "ValueError"
                    /\ param_groups' = NoGroups
                    /\ state' = [p \in Params |-> EmptyState]
              /\ pc' = "idle" =>
                    /\ Len(param_groups') = Len(params)
                    /\ param_groups'[1].lr = lr
                    /\ param_groups'[1].betas = <<b1, b2>>
                    /\ param_groups'[1].eps = eps
              /\ (lr = Zero /\ b1 = Zero /\ b2 = Zero /\ eps = Zero) => pc' = "idle"]_vars

C6_Witness ==
    /\ pc = "idle"
    /\ param_groups[1].lr = Zero
    /\ param_groups[1].betas = <<Zero, Zero>>
    /\ param_groups[1].eps = Zero

C6_WitnessFailed ==
    /\ pc = "failed"
    /\ result.msg = "Invalid epsilon value"
    /\ param_groups = NoGroups

\* C7: a closure given to step() is invoked exactly once in the call, on the
\* parameters as they were when the call was entered (before the loop touches
\* any), and step() returns the value it returned; without a closure nothing
\* is invoked and step() returns no value.
C7_Closure ==
    (pc = "loop" \/ (pc = "idle" /\ result.kind \in {"return", "raise"})) =>
        /\ closure_calls = (IF closure # None THEN 1 ELSE 0)
        /\ loss = (IF closure # None THEN SumAll(pre.data) ELSE NoValue)
        /\ (pc = "loop" /\ cursor = 1) => (data = pre.data /\ state = pre.state)
        /\ result.kind = "return" => result.value = loss

C7_Witness ==
    /\ pc = "idle" /\ result.kind = "return"
    /\ closure # None
    /\ closure_calls = 1
    /\ result.value = SumAll(pre.data)
    /\ result.value # SumAll(data)
    /\ calls = 2

C7_WitnessNoClosure ==
    /\ pc = "idle" /\ result.kind = "return"
    /\ closure = None
    /\ result.value = NoValue
    /\ data # pre.data

\* Two successive updates of p computed with correct_bias and the same gradient.
TwoEqualUpdates(p) ==
    /\ Len(hist[p]) >= 2
    /\ GroupOf(p).correct_bias
    /\ hist[p][1].grad = hist[p][2].grad

\* C8 as stated: with correct_bias, two calls with identical gradients compute
\* different bias corrections and a different step_size, for all accepted betas.
C8_AsStated ==
    \A p \in Params :
        TwoEqualUpdates(p) =>
            /\ hist[p][1].bias_correction1 # hist[p][2].bias_correction1
            /\ hist[p][1].bias_correction2 # hist[p][2].bias_correction2
            /\ hist[p][1].step_size # hist[p][2].step_size

\* C8, amended: with correct_bias, the corrections of the two calls are
\* 1 - beta and 1 - beta^2; bias_correction1 differs between the calls exactly
\* when beta1 # 0 and bias_correction2 exactly when beta2 # 0; with
\* beta1 = beta2 = 0 both corrections are 1 and step_size is the learning rate
\* in both calls.
C8_BiasCorrections ==
    \A p \in Params :
        TwoEqualUpdates(p) =>
            LET g == GroupOf(p)
                a == hist[p][1]
                b == hist[p][2]
            IN  /\ a.bias_correction1 = Sub(One, g.betas[1])
                /\ b.bias_correction1 = Sub(One, Mul(g.betas[1], g.betas[1]))
                /\ a.bias_correction2 = Sub(One, g.betas[2])
                /\ b.bias_correction2 = Sub(One, Mul(g.betas[2], g.betas[2]))
                /\ (a.bias_correction1 # b.bias_correction1) <=> (g.betas[1] # Zero)
                /\ (a.bias_correction2 # b.bias_correction2) <=> (g.betas[2] # Zero)
                /\ a.step_size = Div(Mul(g.lr, Sqrt(a.bias_correction2)), a.bias_correction1)
                /\ b.step_size = Div(Mul(g.lr, Sqrt(b.bias_correction2)), b.bias_correction1)
                /\ (g.betas = <<Zero, Zero>>) => (a.step_size = g.lr /\ b.step_size = g.lr)

C8_Witness ==
    \E p \in Params :
        /\ TwoEqualUpdates(p)
        /\ GroupOf(p).betas[1] # Zero
        /\ GroupOf(p).betas[2] # Zero
        /\ hist[p][1].step_size # hist[p][2].step_size

\* all orders in which the loop may visit the parameters
Orders ==
    LET n == Len(IterOrder)
    IN  { [i \in 1..n |-> IterOrder[f[i]]] :
            f \in { h \in [1..n -> 1..n] : \A i, j \in 1..n : h[i] = h[j] => i = j } }

\* what a call entered in the state pre leaves when it visits in order ord
Outcome(ord) ==
    LET env == run_loop([data |-> pre.data, state |-> pre.state,
                         hist |-> [p \in Params |-> << >>], raised |-> None], ord)
    IN  [data |-> env.data, state |-> env.state]

\* a call has run its loop to the end or raised, and the gradients are still its own
CallEnded == (LoopDone \/ (pc = "idle" /\ result.kind = "raise")) /\ grad = pre.grad

\* C9 as stated: what a call leaves does not depend on the iteration order.
C9_AsStated ==
    CallEnded =>
        \A ord \in Orders : Outcome(ord) = [data |-> data, state |-> state]

\* C9, amended: when no parameter has a sparse gradient, every parameter value
\* and every per-parameter state a call leaves is the same for every
\* iteration order.
C9_OrderIndependent ==
    (CallEnded /\ \A p \in Params : ~(grad[p].present /\ grad[p].is_sparse)) =>
        \A ord \in Orders : Outcome(ord) = [data |-> data, state |-> state]

C9_Witness ==
    /\ LoopDone
    /\ calls = 2
    /\ \E p, r \in Params :
          /\ Len(hist[p]) = 2 /\ Len(hist[r]) = 2
          /\ grad[p].data # grad[r].data
          /\ GroupOf(p) # GroupOf(r)
    /\ Cardinality(Orders) = 6

Positive(x) == x[1] > 0 /\ x[2] > 0
NonNegative(x) == x[1] >= 0 /\ x[2] > 0

====
